---- MODULE Spec2Model ----
(***************************************************************************)
(* A model of trend_finder.py (src/trend_finder.py).                       *)
(*                                                                         *)
(* Money is counted in cents and arithmetic is exact; a rounding tie       *)
(* (a value lying exactly between two representable results) is resolved   *)
(* either way, since the binary float the program holds lies on one side   *)
(* of the tie or the other.                                                *)
(*                                                                         *)
(* Python's None is the empty sequence and a present value v is <<v>>.     *)
(* Text is a sequence of tokens, so that strip(), lower(), replace() and   *)
(* float() are computed on the text and are not the identity.              *)
(***************************************************************************)
EXTENDS Integers, Sequences, FiniteSets, TLC

VARIABLES
    \* get_ebay_app_id: its argument, the environment, the prompt's answer, its outcome
    cli_arg, env, typed, credOut,
    \* get_trending_keywords: its arguments, the primary feed's response, its outcome
    region, top_n, primary, trendOut,
    \* ebay_search_stats and evaluate_keyword: the keyword, the cost source's
    \* credentials in the environment, and the outcome of each
    keyword, ali_env, ebayOut, evalOut,
    \* discover_products: its position (pc), the region and keyword loops, the rows
    \* collected, and the record of the keyword lists fetched and of the
    \* evaluations made (fetched, evald)
    pc, reg_i, trend_kws, kw_i, rows, evald, fetched

credVars  == <<cli_arg, env, typed, credOut>>
trendVars == <<region, top_n, primary, trendOut>>
evalVars  == <<keyword, ali_env, ebayOut, evalOut>>
discVars  == <<pc, reg_i, trend_kws, kw_i, rows, evald, fetched>>
vars == <<credVars, trendVars, evalVars, discVars>>

None == <<>>
Some(v) == <<v>>
IsNone(o) == o = <<>>
The(o) == o[1]

\* Every sequence over S of length at most n.
SeqsUpTo(S, n) == UNION {[1..k -> S] : k \in 0..n}

(***************************************************************************)
(* Bounds of the model.                                                    *)
(***************************************************************************)
MaxCredLen == 2
MaxRaw == 3
MaxTopN == 3
MaxGroups == 2
MaxEvalGroups == 1
MaxProds == 1
MaxDiscRaw == 2

(***************************************************************************)
(* Credential resolution: get_ebay_app_id.                                 *)
(***************************************************************************)
CredChars == {" ", "X", "Y"}
CredStrings == SeqsUpTo(CredChars, MaxCredLen)

RECURSIVE LStrip(_)
LStrip(s) == IF s # <<>> /\ Head(s) = " " THEN LStrip(Tail(s)) ELSE s

RECURSIVE RStrip(_)
RStrip(s) ==
    IF s # <<>> /\ s[Len(s)] = " " THEN RStrip(SubSeq(s, 1, Len(s) - 1)) ELSE s

\* str.strip()
Strip(s) == RStrip(LStrip(s))

\* Python truthiness of an Optional[str]: None and "" are falsy.
TruthyStr(o) == ~IsNone(o) /\ The(o) # <<>>

CredIdle == [kind |-> "idle", val |-> <<>>, status |-> 0, asked |-> <<>>]

\* input(...).strip(), with EOFError / KeyboardInterrupt (no answer) mapped to "".
PromptVal(t) == IF IsNone(t) THEN <<>> ELSE Strip(The(t))

\* The environment consulted before the flag.
ResolveAppId_EnvFirst(cli, e, t) ==
    IF TruthyStr(e)
    THEN [kind |-> "return", val |-> Strip(The(e)), status |-> 0, asked |-> <<"env">>]
    ELSE IF TruthyStr(cli)
    THEN [kind |-> "return", val |-> Strip(The(cli)), status |-> 0, asked |-> <<"env">>]
    ELSE IF PromptVal(t) # <<>>
    THEN [kind |-> "return", val |-> PromptVal(t), status |-> 0,
          asked |-> <<"env", "prompt">>]
    ELSE [kind |-> "exit", val |-> <<>>, status |-> 1, asked |-> <<"env", "prompt">>]

\* The outcome of get_ebay_app_id(cli) with environment value e and prompt answer t:
\* the value returned or the exit status, and the sources consulted after the flag.
ResolveAppId(cli, e, t) ==
    IF TruthyStr(cli)
    THEN [kind |-> "return", val |-> Strip(The(cli)), status |-> 0, asked |-> <<>>]
    ELSE IF TruthyStr(e)
    THEN [kind |-> "return", val |-> Strip(The(e)), status |-> 0, asked |-> <<"env">>]
    ELSE IF PromptVal(t) # <<>>
    THEN [kind |-> "return", val |-> PromptVal(t), status |-> 0,
          asked |-> <<"env", "prompt">>]
    ELSE [kind |-> "exit", val |-> <<>>, status |-> 1, asked |-> <<"env", "prompt">>]

OptCredStrings == {None} \cup {Some(s) : s \in CredStrings}

(***************************************************************************)
(* Trend feeds: fetch_daily_trends and get_trending_keywords.              *)
(***************************************************************************)
\* GOOGLE_GEOS, in the order the dict is written (and so iterated).
Regions == <<"AU", "UK", "US">>
RegionSet == {Regions[i] : i \in 1..Len(Regions)}

GOOGLE_GEOS == [r \in RegionSet |->
    CASE r = "AU" -> "AU" [] r = "UK" -> "GB" [] r = "US" -> "US"]

GOOGLE_PN == [r \in RegionSet |->
    CASE r = "AU" -> "australia" [] r = "UK" -> "united_kingdom"
      [] r = "US" -> "united_states"]

\* str.lower() on the keywords of the model.
Lower(s) == CASE s = "A" -> "a" [] s = "B" -> "b" [] OTHER -> s

RawKeywords == {"", "a", "A", "b"}

\* The exception classes a feed call raises in the model, and their base class.
FeedExcs ==
    {"AttributeError", "ResponseError", "ConnectionError", "Timeout", "KeyError",
     "ValueError"}

ExcBase(exc) ==
    CASE exc = "ConnectionError" -> "RequestException"
      [] exc = "Timeout" -> "RequestException"
      [] OTHER -> exc

\* except (AttributeError, pytrend_exc.ResponseError, ReqConnErr, RequestException)
PrimaryCaught(exc) ==
    \/ exc \in {"AttributeError", "ResponseError", "ConnectionError", "RequestException"}
    \/ ExcBase(exc) \in {"AttributeError", "ResponseError", "RequestException"}

\* An entry of the primary feed's trendingSearches lists, the days taken in order:
\* item['title']['query'] is there (query) or not (a malformed entry).
PrimaryItems ==
    {[hasQuery |-> TRUE, query |-> q] : q \in RawKeywords}
        \cup {[hasQuery |-> FALSE, query |-> ""]}

\* What the primary feed does: the client has no daily_trends ("nocap"), the call
\* raises exc, or it returns data holding items.
PrimaryResponses ==
    {[kind |-> "nocap", exc |-> "", items |-> <<>>]}
        \cup {[kind |-> "raise", exc |-> e, items |-> <<>>] : e \in FeedExcs}
        \cup {[kind |-> "ok", exc |-> "", items |-> its] :
                its \in SeqsUpTo(PrimaryItems, MaxRaw)}

\* What the secondary feed does: the call raises, or returns a column of keywords.
SecondaryResponses ==
    {[kind |-> "raise", exc |-> e, items |-> <<>>] : e \in {"ResponseError", "KeyError"}}
        \cup {[kind |-> "ok", exc |-> "", items |-> its] :
                its \in SeqsUpTo(RawKeywords, MaxRaw)}

\* A call of a feed: its name and the argument passed (None: no argument).
FeedCall(feed, arg) == [feed |-> feed, arg |-> arg]

\* Lines 72-82: the outcome of the primary attempt.
\*   "return": the list is returned; "fallback": control reaches line 84;
\*   "raise": the exception leaves fetch_daily_trends.
PrimaryAttempt(reg, prim) ==
    IF prim.kind = "nocap"
    THEN [kind |-> "fallback", exc |-> "", kws |-> <<>>, calls |-> <<>>, warned |-> FALSE]
    ELSE LET call == <<FeedCall("daily_trends", Some(GOOGLE_GEOS[reg]))>> IN
         IF prim.kind = "raise"
         THEN IF PrimaryCaught(prim.exc)
              THEN [kind |-> "fallback", exc |-> prim.exc, kws |-> <<>>,
                    calls |-> call, warned |-> TRUE]
              ELSE [kind |-> "raise", exc |-> prim.exc, kws |-> <<>>,
                    calls |-> call, warned |-> FALSE]
         ELSE IF \E i \in 1..Len(prim.items) : ~prim.items[i].hasQuery
              THEN \* item['title']['query'] raises KeyError, which line 81 does not name
                   IF PrimaryCaught("KeyError")
                   THEN [kind |-> "fallback", exc |-> "KeyError", kws |-> <<>>,
                         calls |-> call, warned |-> TRUE]
                   ELSE [kind |-> "raise", exc |-> "KeyError", kws |-> <<>>,
                         calls |-> call, warned |-> FALSE]
              ELSE [kind |-> "return", exc |-> "",
                    kws |-> [i \in 1..Len(prim.items) |-> Lower(prim.items[i].query)],
                    calls |-> call, warned |-> FALSE]

\* Lines 84-90: tr.trending_searches() is called without an argument.
SecondaryAttempt(reg, sec) ==
    [kind |-> "return", exc |-> "",
     kws |-> IF sec.kind = "ok"
             THEN [i \in 1..Len(sec.items) |-> Lower(sec.items[i])]
             ELSE <<>>,
     calls |-> <<FeedCall("trending_searches", None)>>,
     warned |-> sec.kind = "raise"]

\* fetch_daily_trends(reg), the feeds answering prim and sec.
FetchDailyTrends(reg, prim, sec) ==
    LET p == PrimaryAttempt(reg, prim) IN
    IF p.kind # "fallback" THEN p
    ELSE LET s == SecondaryAttempt(reg, sec) IN
         [s EXCEPT !.calls = p.calls \o s.calls]

Range(s) == {s[i] : i \in 1..Len(s)}

\* The loop of lines 94-98 from position i on, seen being the list built so far.
RECURSIVE DedupLoop(_, _, _, _)
DedupLoop(kws, i, seen, n) ==
    IF i > Len(kws) THEN seen
    ELSE LET seen2 == IF kws[i] # "" /\ kws[i] \notin Range(seen)
                      THEN Append(seen, kws[i]) ELSE seen
         IN IF Len(seen2) >= n THEN seen2 ELSE DedupLoop(kws, i + 1, seen2, n)

\* get_trending_keywords(reg, n): raw is what the feed gave, kws what is returned.
GetTrendingKeywords(reg, n, prim, sec) ==
    LET f == FetchDailyTrends(reg, prim, sec) IN
    [kind |-> f.kind, exc |-> f.exc, raw |-> f.kws,
     kws |-> IF f.kind = "return" THEN DedupLoop(f.kws, 1, <<>>, n) ELSE <<>>,
     calls |-> f.calls,
     secondary |-> IF Len(f.calls) > 0 /\ f.calls[Len(f.calls)].feed = "trending_searches"
                   THEN Some(sec) ELSE None]

TrendIdleOut ==
    [kind |-> "idle", exc |-> "", raw |-> <<>>, kws |-> <<>>, calls |-> <<>>,
     secondary |-> None]

(***************************************************************************)
(* Text of prices, and JSON fields.                                        *)
(***************************************************************************)
\* A text is a sequence of tokens: a decimal number (n cents), the currency
\* markup "US $", or something float() does not accept.
NumTok(n) == [k |-> "num", n |-> n]
UsdTok == [k |-> "usd", n |-> 0]
JunkTok == [k |-> "junk", n |-> 0]

\* txt.replace("US $", "")
StripMarkup(txt) == SelectSeq(txt, LAMBDA t : t.k # "usd")

\* float(txt): the number, or None where float raises ValueError.
ParseFloat(txt) ==
    IF Len(txt) = 1 /\ txt[1].k = "num" THEN Some(txt[1].n) ELSE None

\* A key of a JSON object: absent, or present with a value (a list or a text).
Absent == [present |-> FALSE, val |-> <<>>]
Present(v) == [present |-> TRUE, val |-> v]

\* dict.get(key, default)
Get(f, default) == IF f.present THEN f.val ELSE default

\* Truthiness of dict.get(key): a missing key, an empty list and "" are falsy.
TruthyField(f) == f.present /\ f.val # <<>>

(***************************************************************************)
(* Marketplace: ebay_search_stats.                                         *)
(***************************************************************************)
MAX_SELL_PRICE == 2500
MAX_LISTINGS == 250
MIN_MARGIN == 30

\* An item of the response: sellingStatus is absent, [] or [status]; the status'
\* currentPrice is absent, [] or [price]; the price's __value__ is absent or a text.
EbayItem(ss) == [sellingStatus |-> ss]
EbayStatus(cp) == [currentPrice |-> cp]
EbayPrice(v) == [value |-> v]
PricedItem(txt) ==
    EbayItem(Present(<<EbayStatus(Present(<<EbayPrice(Present(txt))>>))>>))

\* Line 126 for one item: "skip" (the filter of line 127 drops it), "raise" or
\* "price" with the price in cents.
ItemPrice(it) ==
    IF ~TruthyField(it.sellingStatus)
    THEN [kind |-> "skip", exc |-> "", n |-> 0]
    ELSE LET st == it.sellingStatus.val[1] IN
    IF ~st.currentPrice.present
    THEN [kind |-> "raise", exc |-> "KeyError", n |-> 0]
    ELSE IF st.currentPrice.val = <<>>
    THEN [kind |-> "raise", exc |-> "IndexError", n |-> 0]
    ELSE LET cp == st.currentPrice.val[1] IN
    IF ~cp.value.present
    THEN [kind |-> "raise", exc |-> "KeyError", n |-> 0]
    ELSE IF IsNone(ParseFloat(cp.value.val))
    THEN [kind |-> "raise", exc |-> "ValueError", n |-> 0]
    ELSE [kind |-> "price", exc |-> "", n |-> The(ParseFloat(cp.value.val))]

\* The item list is kept as runs: g.n equal items g.it in a row.
\* len(prices): the number of items whose price was extracted.
RECURSIVE CountPrices(_)
CountPrices(runs) ==
    IF runs = <<>> THEN 0
    ELSE (IF ItemPrice(Head(runs).it).kind = "price" THEN Head(runs).n ELSE 0)
             + CountPrices(Tail(runs))

\* sum(prices)
RECURSIVE SumPrices(_)
SumPrices(runs) ==
    IF runs = <<>> THEN 0
    ELSE (IF ItemPrice(Head(runs).it).kind = "price"
          THEN Head(runs).n * ItemPrice(Head(runs).it).n ELSE 0)
             + SumPrices(Tail(runs))

\* {} at the two levels of the envelope.
EmptyResult == [item |-> Absent]
EmptyEnvelope == [searchResult |-> Absent]

StatsRaise(exc) == [kind |-> "raise", exc |-> exc, count |-> 0, avg_price |-> None]

\* Lines 125-129 on the item list: the average is kept as the fraction sum / len.
StatsOfItems(items) ==
    IF \E i \in 1..Len(items) : ItemPrice(items[i].it).kind = "raise"
    THEN LET i == CHOOSE j \in 1..Len(items) :
                      /\ ItemPrice(items[j].it).kind = "raise"
                      /\ \A h \in 1..(j - 1) : ItemPrice(items[h].it).kind # "raise"
         IN StatsRaise(ItemPrice(items[i].it).exc)
    ELSE LET cnt == CountPrices(items) IN
         [kind |-> "return", exc |-> "", count |-> cnt,
          avg_price |-> IF cnt > 0
                        THEN Some([num |-> SumPrices(items), den |-> cnt])
                        ELSE None]

\* Lines 119-124: the item list of the body, or the exception a [0] raises.
ItemsOfBody(body) ==
    LET far == Get(body.findItemsAdvancedResponse, <<EmptyEnvelope>>) IN
    IF far = <<>> THEN [ok |-> FALSE, items |-> <<>>]
    ELSE LET sr == Get(far[1].searchResult, <<EmptyResult>>) IN
         IF sr = <<>> THEN [ok |-> FALSE, items |-> <<>>]
         ELSE [ok |-> TRUE, items |-> Get(sr[1].item, <<>>)]

\* ebay_search_stats: resp is what the marketplace answers to the one request.
EbaySearchStats(resp) ==
    IF resp.kind = "httperr" THEN StatsRaise("RequestException")
    ELSE LET its == ItemsOfBody(resp.body) IN
         IF ~its.ok THEN StatsRaise("IndexError") ELSE StatsOfItems(its.items)

\* Bodies of the marketplace's answers.
BodyOfItems(items) ==
    [findItemsAdvancedResponse |->
        Present(<<[searchResult |-> Present(<<[item |-> Present(items)]>>)]>>)]

EnvelopeShapes ==
    {[findItemsAdvancedResponse |-> Absent],
     [findItemsAdvancedResponse |-> Present(<<>>)],
     [findItemsAdvancedResponse |-> Present(<<EmptyEnvelope>>)],
     [findItemsAdvancedResponse |-> Present(<<[searchResult |-> Present(<<>>)]>>)],
     [findItemsAdvancedResponse |-> Present(<<[searchResult |-> Present(<<EmptyResult>>)]>>)]}

EbayPrices == {0, 2000, 2500, 3000}
RunLengths == {1, MAX_LISTINGS, MAX_LISTINGS + 1}

ItemShapes ==
    {EbayItem(Absent), EbayItem(Present(<<>>)),
     EbayItem(Present(<<EbayStatus(Absent)>>)),
     EbayItem(Present(<<EbayStatus(Present(<<>>))>>)),
     EbayItem(Present(<<EbayStatus(Present(<<EbayPrice(Absent)>>))>>)),
     PricedItem(<<JunkTok>>)}
        \cup {PricedItem(<<NumTok(p)>>) : p \in EbayPrices}

Runs(shapes) == {[it |-> it, n |-> n] : it \in shapes, n \in RunLengths}

HttpError == [kind |-> "httperr", body |-> [findItemsAdvancedResponse |-> Absent]]
BodyResp(b) == [kind |-> "body", body |-> b]

\* Every answer of the model: a failed request, or a body of any shape.
EbayResponses ==
    {HttpError} \cup {BodyResp(b) : b \in EnvelopeShapes}
        \cup {BodyResp(BodyOfItems(its)) : its \in SeqsUpTo(Runs(ItemShapes), MaxGroups)}

EbayIdleOut ==
    [kind |-> "idle", exc |-> "", count |-> 0, avg_price |-> None, resp |-> HttpError]

(***************************************************************************)
(* Cost source: aliexpress_lowest_price.                                   *)
(***************************************************************************)
\* The two environment values of line 134, each None, "" or a key.
AliEnvs ==
    {[ak |-> None, tid |-> Some(<<"t">>)],
     [ak |-> Some(<<"k">>), tid |-> Some(<<>>)],
     [ak |-> Some(<<"k">>), tid |-> Some(<<"t">>)]}

CostCents == {0, 1000, 1399, 1400, 1600}

SaleFields ==
    {Absent, Present(<<>>), Present(<<JunkTok>>), Present(<<UsdTok>>)}
        \cup {Present(<<UsdTok, NumTok(c)>>) : c \in CostCents}

\* originalPrice is read only when salePrice is missing or "".
Products ==
    {[salePrice |-> sp, originalPrice |-> Absent] : sp \in SaleFields}
        \cup {[salePrice |-> sp, originalPrice |-> Present(<<NumTok(1000)>>)] :
                sp \in {Absent, Present(<<>>)}}

\* What the cost source answers to the one request: the request fails, the body
\* is not JSON, or it is JSON with its success flag and its products.
CostResponses ==
    {[kind |-> "httperr", success |-> FALSE, products |-> <<>>],
     [kind |-> "badjson", success |-> FALSE, products |-> <<>>],
     [kind |-> "json", success |-> FALSE, products |-> <<>>]}
        \cup {[kind |-> "json", success |-> TRUE, products |-> ps] :
                ps \in SeqsUpTo(Products, MaxProds)}

\* Lines 147-152 for one product: the parsed price, or None when nothing is appended.
ProductPrice(prod) ==
    LET txt == IF TruthyField(prod.salePrice) THEN prod.salePrice
               ELSE prod.originalPrice
    IN IF TruthyField(txt) THEN ParseFloat(StripMarkup(txt.val)) ELSE None

\* The list prices of lines 145-152.
RECURSIVE ParsedPrices(_)
ParsedPrices(prods) ==
    IF prods = <<>> THEN <<>>
    ELSE ProductPrice(Head(prods)) \o ParsedPrices(Tail(prods))

Min(S) == CHOOSE m \in S : \A x \in S : m <= x

CostReturn(v, requested) == [kind |-> "return", exc |-> "", cost |-> v, requested |-> requested]

\* aliexpress_lowest_price with environment e, resp answering the request (if made).
AliexpressLowestPrice(e, resp) ==
    IF ~(TruthyStr(e.ak) /\ TruthyStr(e.tid)) THEN CostReturn(None, FALSE)
    ELSE IF resp.kind = "httperr" THEN CostReturn(None, TRUE)
    ELSE IF resp.kind = "badjson"
    THEN \* r.json() of line 143 is outside the try of lines 138-142
         [kind |-> "raise", exc |-> "ValueError", cost |-> None, requested |-> TRUE]
    ELSE IF ~resp.success THEN CostReturn(None, TRUE)
    ELSE LET prices == ParsedPrices(resp.products) IN
         CostReturn(IF prices # <<>> THEN Some(Min(Range(prices))) ELSE None, TRUE)

(***************************************************************************)
(* Scoring: evaluate_keyword.                                              *)
(***************************************************************************)
\* round(a / b, .) for b > 0 to the nearest whole unit; on a tie, up decides.
RoundDiv(a, b, up) ==
    LET q == a \div b
        r == a % b
    IN IF 2 * r < b THEN q
       ELSE IF 2 * r > b THEN q + 1
       ELSE IF up THEN q + 1 ELSE q

\* Python truthiness of avg and of cost: None and 0.0 are falsy.
TruthyAvg(avg) == ~IsNone(avg) /\ The(avg).num # 0
TruthyNum(o) == ~IsNone(o) /\ The(o) # 0

\* Line 160 without its test of the listing count.
PriceFilterRejects_NoCount(stats) ==
    \/ IsNone(stats.avg_price)
    \/ The(stats.avg_price).num = 0
    \/ The(stats.avg_price).num > MAX_SELL_PRICE * The(stats.avg_price).den

\* Line 160: the keyword is dropped on the marketplace's figures alone.
PriceFilterRejects(stats) ==
    \/ ~TruthyAvg(stats.avg_price)
    \/ The(stats.avg_price).num > MAX_SELL_PRICE * The(stats.avg_price).den
    \/ stats.count > MAX_LISTINGS

\* Line 163: margin = (avg - cost) / avg if cost else None, kept as the numerator
\* of the fraction (avg.num - cost * avg.den) / avg.num.
Margin(avg, cost) ==
    IF TruthyNum(cost) THEN Some(avg.num - The(cost) * avg.den) ELSE None

\* The margin taken as a percentage and compared with the fraction MIN_MARGIN.
MarginBelowMin_Percent(avg, margin) ==
    The(margin) * 100 < (MIN_MARGIN * avg.num) \div 100

\* margin < MIN_MARGIN, for avg > 0.
MarginBelowMin(avg, margin) == The(margin) * 100 < MIN_MARGIN * avg.num

EvalOutcome(kind, exc, cand, calls) ==
    [kind |-> kind, exc |-> exc, cand |-> cand, calls |-> calls]

\* The dict of lines 166-173: money in cents, margin_pct in tenths of a percent,
\* None for "n/a".
Candidate(kw, reg, stats, cost, tieP, tieM) ==
    LET avg == The(stats.avg_price)
        margin == Margin(avg, cost)
    IN [keyword |-> kw, region |-> reg,
        sell_price |-> RoundDiv(avg.num, avg.den, tieP),
        cost_price |-> IF TruthyNum(cost) THEN cost ELSE None,
        margin_pct |-> IF TruthyNum(margin)
                       THEN Some(RoundDiv(The(margin) * 1000, avg.num, tieM))
                       ELSE None,
        ebay_listings |-> stats.count]

NoCandidate == None

\* evaluate_keyword(kw, reg): ebay and ali answer the requests made, e is the cost
\* source's environment, tieP and tieM resolve the two roundings' ties.
\* calls lists the services called, in order.
EvaluateKeyword(kw, reg, ebay, e, ali, tieP, tieM) ==
    LET stats == EbaySearchStats(ebay) IN
    IF stats.kind = "raise"
    THEN EvalOutcome("raise", stats.exc, NoCandidate, <<"ebay_search_stats">>)
    ELSE IF PriceFilterRejects(stats)
    THEN EvalOutcome("return", "", NoCandidate, <<"ebay_search_stats">>)
    ELSE LET c == AliexpressLowestPrice(e, ali)
             calls == <<"ebay_search_stats", "aliexpress_lowest_price">>
             avg == The(stats.avg_price)
             margin == Margin(avg, c.cost)
         IN IF c.kind = "raise" THEN EvalOutcome("raise", c.exc, NoCandidate, calls)
            ELSE IF ~IsNone(c.cost) /\ IsNone(margin)
            THEN \* line 164 compares margin = None with MIN_MARGIN
                 EvalOutcome("raise", "TypeError", NoCandidate, calls)
            ELSE IF ~IsNone(c.cost) /\ MarginBelowMin(avg, margin)
            THEN EvalOutcome("return", "", NoCandidate, calls)
            ELSE EvalOutcome("return", "",
                             Some(Candidate(kw, reg, stats, c.cost, tieP, tieM)), calls)

\* Whether evaluate_keyword reaches line 162 on this answer of the marketplace.
ReachesCostLookup(ebay) ==
    /\ EbaySearchStats(ebay).kind = "return"
    /\ ~PriceFilterRejects(EbaySearchStats(ebay))

(***************************************************************************)
(* Specifications of the single functions: the arguments and the           *)
(* environment are drawn by the initial state, the answers of the network  *)
(* by the step that makes the request.                                     *)
(***************************************************************************)
Keywords == {"a", "b"}

\* The answers of the marketplace evaluate_keyword is run on: priced items and
\* one malformed item, in runs.
EvalRuns ==
    Runs({PricedItem(<<NumTok(p)>>) : p \in EbayPrices})
        \cup {[it |-> EbayItem(Present(<<EbayStatus(Absent)>>)), n |-> 1]}

EvalEbayResponses ==
    {HttpError, BodyResp([findItemsAdvancedResponse |-> Absent])}
        \cup {BodyResp(BodyOfItems(its)) : its \in SeqsUpTo(EvalRuns, MaxEvalGroups)}

EvalIdleOut ==
    [kind |-> "idle", exc |-> "", cand |-> NoCandidate, calls |-> <<>>,
     ebay |-> HttpError, lookup |-> None, ali |-> None]

CredIdleState ==
    /\ cli_arg = None
    /\ env = None
    /\ typed = None
    /\ credOut = CredIdle

TrendIdle ==
    /\ top_n = 0
    /\ primary = [kind |-> "nocap", exc |-> "", items |-> <<>>]
    /\ trendOut = TrendIdleOut

EvalIdle ==
    /\ keyword = "a"
    /\ ali_env = [ak |-> None, tid |-> None]
    /\ ebayOut = EbayIdleOut
    /\ evalOut = EvalIdleOut

DiscIdle ==
    /\ pc = "idle"
    /\ reg_i = 1
    /\ trend_kws = <<>>
    /\ kw_i = 1
    /\ rows = <<>>
    /\ evald = <<>>
    /\ fetched = <<>>

InitCred ==
    /\ cli_arg \in OptCredStrings
    /\ env \in OptCredStrings
    /\ typed \in OptCredStrings
    /\ credOut = CredIdle
    /\ region = "AU"
    /\ TrendIdle
    /\ EvalIdle
    /\ DiscIdle

get_ebay_app_id ==
    /\ credOut.kind = "idle"
    /\ credOut' = ResolveAppId(cli_arg, env, typed)
    /\ UNCHANGED <<cli_arg, env, typed, trendVars, evalVars, discVars>>

NextCred == get_ebay_app_id

SpecCred == InitCred /\ [][NextCred]_vars

InitTrends ==
    /\ region \in RegionSet
    /\ top_n \in 0..MaxTopN
    /\ primary \in PrimaryResponses
    /\ trendOut = TrendIdleOut
    /\ CredIdleState
    /\ EvalIdle
    /\ DiscIdle

get_trending_keywords ==
    /\ trendOut.kind = "idle"
    /\ \E sec \in SecondaryResponses :
           trendOut' = GetTrendingKeywords(region, top_n, primary, sec)
    /\ UNCHANGED <<region, top_n, primary, credVars, evalVars, discVars>>

NextTrends == get_trending_keywords

SpecTrends == InitTrends /\ [][NextTrends]_vars

InitEbay ==
    /\ keyword \in Keywords
    /\ region \in RegionSet
    /\ ali_env = [ak |-> None, tid |-> None]
    /\ ebayOut = EbayIdleOut
    /\ evalOut = EvalIdleOut
    /\ CredIdleState
    /\ TrendIdle
    /\ DiscIdle

ebay_search_stats ==
    /\ ebayOut.kind = "idle"
    /\ \E resp \in EbayResponses :
           LET st == EbaySearchStats(resp) IN
           ebayOut' = [kind |-> st.kind, exc |-> st.exc, count |-> st.count,
                       avg_price |-> st.avg_price, resp |-> resp]
    /\ UNCHANGED <<keyword, ali_env, evalOut, credVars, trendVars, discVars>>

NextEbay == ebay_search_stats

SpecEbay == InitEbay /\ [][NextEbay]_vars

InitEval ==
    /\ keyword = "a"
    /\ region \in RegionSet
    /\ ali_env \in AliEnvs
    /\ ebayOut = EbayIdleOut
    /\ evalOut = EvalIdleOut
    /\ CredIdleState
    /\ TrendIdle
    /\ DiscIdle

\* The outcome of one evaluation, with the answers it consumed: lookup is the cost
\* lookup's outcome when line 162 ran, ali the cost source's answer when requested.
Evaluation(kw, reg, ebay, e, ali, tieP, tieM) ==
    LET o == EvaluateKeyword(kw, reg, ebay, e, ali, tieP, tieM)
        c == AliexpressLowestPrice(e, ali)
        ran == ReachesCostLookup(ebay)
    IN [kind |-> o.kind, exc |-> o.exc, cand |-> o.cand, calls |-> o.calls,
        ebay |-> ebay,
        lookup |-> IF ran THEN Some(c) ELSE None,
        ali |-> IF ran /\ c.requested THEN Some(ali) ELSE None]

evaluate_keyword ==
    /\ evalOut.kind = "idle"
    /\ \E ebay \in EvalEbayResponses, ali \in CostResponses, tieP, tieM \in BOOLEAN :
           evalOut' = Evaluation(keyword, region, ebay, ali_env, ali, tieP, tieM)
    /\ UNCHANGED <<keyword, region, ali_env, ebayOut, credVars, top_n, primary, trendOut,
                   discVars>>

NextEval == evaluate_keyword

SpecEval == InitEval /\ [][NextEval]_vars

(***************************************************************************)
(* Discovery: discover_products.                                           *)
(***************************************************************************)
TOP_N_TRENDS == 20

\* The answers of the feeds, the marketplace and the cost source in a discovery.
WellFormed(q) == [hasQuery |-> TRUE, query |-> q]

DiscPrimary ==
    {[kind |-> "nocap", exc |-> "", items |-> <<>>],
     [kind |-> "raise", exc |-> "ResponseError", items |-> <<>>],
     [kind |-> "raise", exc |-> "ValueError", items |-> <<>>],
     [kind |-> "ok", exc |-> "", items |-> <<[hasQuery |-> FALSE, query |-> ""]>>]}
        \cup {[kind |-> "ok", exc |-> "", items |-> its] :
                its \in SeqsUpTo({WellFormed(q) : q \in Keywords}, MaxDiscRaw)}

DiscSecondary ==
    {[kind |-> "raise", exc |-> "ResponseError", items |-> <<>>],
     [kind |-> "ok", exc |-> "", items |-> <<"B">>]}

OneItem(p) == BodyResp(BodyOfItems(<<[it |-> PricedItem(<<NumTok(p)>>), n |-> 1]>>))

DiscEbay == {HttpError, OneItem(2000), OneItem(3000)}

OneProduct(c) ==
    [kind |-> "json", success |-> TRUE,
     products |-> <<[salePrice |-> Present(<<UsdTok, NumTok(c)>>),
                     originalPrice |-> Absent]>>]

DiscCost ==
    {[kind |-> "badjson", success |-> FALSE, products |-> <<>>],
     OneProduct(0), OneProduct(1000), OneProduct(1600)}

Init ==
    /\ pc = "region"
    /\ reg_i = 1
    /\ trend_kws = <<>>
    /\ kw_i = 1
    /\ rows = <<>>
    /\ evald = <<>>
    /\ fetched = <<>>
    /\ region = Regions[1]
    /\ keyword = "a"
    /\ ali_env = [ak |-> Some(<<"k">>), tid |-> Some(<<"t">>)]
    /\ ebayOut = EbayIdleOut
    /\ evalOut = EvalIdleOut
    /\ CredIdleState
    /\ TrendIdle

\* Line 181: the keywords of the next region. An exception leaving
\* get_trending_keywords is outside the try of line 182 and ends the run.
FetchKeywords ==
    /\ pc = "region"
    /\ reg_i <= Len(Regions)
    /\ \E prim \in DiscPrimary, sec \in DiscSecondary :
           LET t == GetTrendingKeywords(Regions[reg_i], TOP_N_TRENDS, prim, sec) IN
           /\ pc' = IF t.kind = "raise" THEN "aborted" ELSE "keyword"
           /\ trend_kws' = t.kws
           /\ fetched' = IF t.kind = "raise" THEN fetched
                         ELSE Append(fetched, [region |-> Regions[reg_i], kws |-> t.kws])
    /\ kw_i' = 1
    /\ region' = Regions[reg_i]
    /\ UNCHANGED <<reg_i, rows, evald, keyword, ali_env, ebayOut, evalOut, credVars,
                   top_n, primary, trendOut>>

\* What lines 182-188 leave in rows after an evaluation with outcome o.
RowsAfter(rs, o) ==
    IF o.kind = "return" /\ ~IsNone(o.cand) THEN Append(rs, The(o.cand)) ELSE rs

\* The keyword loop left when an evaluation raises.
NextKeyword_BreakOnRaise(i, o) == IF o.kind = "raise" THEN Len(trend_kws) + 1 ELSE i + 1

\* Where the keyword loop stands after an evaluation at position i.
NextKeyword(i, o) == i + 1

\* Lines 182-188 for the next keyword of the region.
EvaluateNext ==
    /\ pc = "keyword"
    /\ kw_i <= Len(trend_kws)
    /\ \E ebay \in DiscEbay, ali \in DiscCost, tieP, tieM \in BOOLEAN :
           LET o == EvaluateKeyword(trend_kws[kw_i], Regions[reg_i], ebay, ali_env, ali,
                                    tieP, tieM)
           IN /\ rows' = RowsAfter(rows, o)
              /\ kw_i' = NextKeyword(kw_i, o)
              /\ evald' = Append(evald, [region |-> Regions[reg_i],
                                         keyword |-> trend_kws[kw_i],
                                         kind |-> o.kind, cand |-> o.cand])
    /\ keyword' = trend_kws[kw_i]
    /\ UNCHANGED <<pc, reg_i, trend_kws, fetched, region, ali_env, ebayOut, evalOut, credVars,
                   top_n, primary, trendOut>>

\* The keyword loop is exhausted: on to the next region.
EndRegion ==
    /\ pc = "keyword"
    /\ kw_i > Len(trend_kws)
    /\ reg_i' = reg_i + 1
    /\ pc' = "region"
    /\ UNCHANGED <<trend_kws, kw_i, rows, evald, fetched, evalVars, credVars, trendVars>>

\* Line 189: the region loop is exhausted and the rows are returned.
Return ==
    /\ pc = "region"
    /\ reg_i > Len(Regions)
    /\ pc' = "done"
    /\ UNCHANGED <<reg_i, trend_kws, kw_i, rows, evald, fetched, evalVars, credVars, trendVars>>

Next == FetchKeywords \/ EvaluateNext \/ EndRegion \/ Return

Spec == Init /\ [][Next]_vars

\* The program is one sequential thread and every request has a timeout, so a
\* step that can be taken is taken.
FairSpec == Spec /\ WF_vars(Next)

(***************************************************************************)
(* The claims.                                                             *)
(***************************************************************************)
Accepted(o) == o.kind = "return" /\ ~IsNone(o.cand)

RECURSIVE AcceptedOf(_)
AcceptedOf(ev) ==
    IF ev = <<>> THEN <<>>
    ELSE (IF Accepted(Head(ev)) THEN <<The(Head(ev).cand)>> ELSE <<>>)
             \o AcceptedOf(Tail(ev))

\* The (region, keyword) pairs of the keyword lists fetched, in order.
RECURSIVE PairsOf(_)
PairsOf(fs) ==
    IF fs = <<>> THEN <<>>
    ELSE [i \in 1..Len(Head(fs).kws) |-> <<Head(fs).region, Head(fs).kws[i]>>]
             \o PairsOf(Tail(fs))

RowsAreTheAccepted == rows = AcceptedOf(evald)

AllEvaluatedAtReturn ==
    pc = "done" =>
        /\ [i \in 1..Len(fetched) |-> fetched[i].region] = Regions
        /\ [i \in 1..Len(evald) |-> <<evald[i].region, evald[i].keyword>>]
               = PairsOf(fetched)

\* A step in which the evaluation of a keyword raised.
EvaluationRaised ==
    /\ Len(evald') = Len(evald) + 1
    /\ evald'[Len(evald')].kind = "raise"

RaiseIsSkipped ==
    EvaluationRaised =>
        /\ rows' = rows
        /\ pc' = "keyword"
        /\ kw_i' = kw_i + 1
        /\ kw_i <= Len(trend_kws)

\* C2: whatever the outcomes of the evaluations, discover_products evaluates every
\* keyword the trend provider returned for every region, in order, and returns
\* exactly the accepted candidates; an evaluation that raises adds no row and the
\* loop goes on with the next keyword; the run terminates.
C2_EveryKeywordEvaluated ==
    /\ [](RowsAreTheAccepted /\ AllEvaluatedAtReturn)
    /\ [][RaiseIsSkipped]_vars
    /\ <>(pc \in {"done", "aborted"})

\* A run that returned after an evaluation raised and a later keyword was accepted.
C2_Witness ==
    /\ pc = "done"
    /\ \E i, j \in 1..Len(evald) :
           /\ i < j
           /\ evald[i].kind = "raise"
           /\ Accepted(evald[j])
    /\ Len(rows) >= 1

\* C3: get_trending_keywords never raises to its caller; when the primary feed
\* fails in any way the secondary feed is attempted, and when both fail the empty
\* sequence is returned.
C3_TrendsNeverRaise ==
    trendOut.kind # "idle" =>
        /\ trendOut.kind = "return"
        /\ (primary.kind # "ok" \/ \E i \in 1..Len(primary.items) :
                                        ~primary.items[i].hasQuery)
               => /\ ~IsNone(trendOut.secondary)
                  /\ The(trendOut.secondary).kind = "raise" => trendOut.kws = <<>>

\* The first n entries of s.
Take(s, n) == SubSeq(s, 1, IF n < Len(s) THEN n ELSE Len(s))

\* The entries of raw that are not empty and occur at no earlier position.
FirstSeen(raw) ==
    LET keep == {i \in 1..Len(raw) : raw[i] # "" /\ \A j \in 1..(i - 1) : raw[j] # raw[i]}
        F[i \in 0..Len(raw)] ==
            IF i = 0 THEN <<>>
            ELSE IF i \in keep THEN Append(F[i - 1], raw[i]) ELSE F[i - 1]
    IN F[Len(raw)]

\* C4: for every cap top_n >= 0, get_trending_keywords returns a sequence without
\* duplicates and without empty entries, of length <= top_n, equal to the first
\* top_n distinct non-empty keywords of the raw list in first-seen order.
C4_DedupWithinCap ==
    trendOut.kind = "return" =>
        /\ Len(trendOut.kws) <= top_n
        /\ \A i, j \in 1..Len(trendOut.kws) :
               i # j => trendOut.kws[i] # trendOut.kws[j]
        /\ \A i \in 1..Len(trendOut.kws) : trendOut.kws[i] # ""
        /\ trendOut.kws = Take(FirstSeen(trendOut.raw), top_n)

\* C5: the cost lookup never raises, and evaluate_keyword raises only when the
\* marketplace call raised.
C5_OnlyMarketplaceFailurePropagates ==
    evalOut.kind # "idle" =>
        /\ ~IsNone(evalOut.lookup) => The(evalOut.lookup).kind = "return"
        /\ evalOut.kind = "raise" => EbaySearchStats(evalOut.ebay).kind = "raise"

\* The margin (avg - cost) / avg, avg = a.num / a.den > 0, is at least pct percent.
MarginAtLeast(a, cost, pct) == (a.num - cost * a.den) * 100 >= pct * a.num

\* t tenths of a percent is a nearest tenth to the margin (avg - cost) / avg.
NearestTenth(t, a, cost) ==
    LET m == (a.num - cost * a.den) * 1000 IN
    /\ 2 * (t * a.num - m) <= a.num
    /\ 2 * (m - t * a.num) <= a.num

\* C6: for marketplace figures that pass the price and listing-count filter, a
\* Candidate is returned if and only if the cost is unknown or the margin is at
\* least MIN_MARGIN; with a known cost the candidate carries that cost and the
\* margin as a percentage, with an unknown cost both are "n/a".
C6_AcceptedIffMarginOk ==
    (/\ evalOut.kind # "idle"
     /\ ~IsNone(evalOut.lookup)
     /\ The(evalOut.lookup).kind = "return") =>
        LET cost == The(evalOut.lookup).cost
            avg == The(EbaySearchStats(evalOut.ebay).avg_price)
        IN /\ Accepted(evalOut) <=>
                  (IsNone(cost) \/ MarginAtLeast(avg, The(cost), MIN_MARGIN))
           /\ Accepted(evalOut) /\ ~IsNone(cost) =>
                  /\ The(evalOut.cand).cost_price = cost
                  /\ ~IsNone(The(evalOut.cand).margin_pct)
                  /\ NearestTenth(The(The(evalOut.cand).margin_pct), avg, The(cost))
           /\ Accepted(evalOut) /\ IsNone(cost) =>
                  /\ IsNone(The(evalOut.cand).cost_price)
                  /\ IsNone(The(evalOut.cand).margin_pct)

Blank(o) == IsNone(o) \/ The(o) = <<>>

\* C7: the credential is the override when one is supplied, else the environment
\* value when there is one, else the prompt's answer; when all three are absent
\* or empty the process exits with a non-zero status and returns no credential.
C7_ResolutionOrder ==
    credOut.kind # "idle" =>
        /\ ~Blank(cli_arg) =>
               /\ credOut.kind = "return"
               /\ credOut.val = Strip(The(cli_arg))
               /\ credOut.asked = <<>>
        /\ Blank(cli_arg) /\ ~Blank(env) =>
               /\ credOut.kind = "return"
               /\ credOut.val = Strip(The(env))
               /\ credOut.asked = <<"env">>
        /\ Blank(cli_arg) /\ Blank(env) =>
               /\ credOut.asked = <<"env", "prompt">>
               /\ ~Blank(typed) /\ credOut.kind = "return" => credOut.val = Strip(The(typed))
               /\ Blank(typed) => credOut.kind = "exit"
        /\ credOut.kind = "exit" => credOut.status # 0 /\ credOut.val = <<>>
        /\ credOut.kind = "return" => credOut.status = 0

\* An override and an environment value that differ: the override is returned.
C7_Witness ==
    /\ cli_arg = Some(<<"X">>)
    /\ env = Some(<<"Y">>)
    /\ credOut.kind = "return"
    /\ credOut.val = <<"X">>

\* The number of entries of calls equal to name.
Count(calls, name) == Cardinality({i \in 1..Len(calls) : calls[i] = name})

\* One evaluation calls the marketplace once and first, and the cost source not at
\* all when skip holds of the marketplace's figures and once otherwise.
CallDiscipline(skip) ==
    evalOut.kind # "idle" =>
        LET st == EbaySearchStats(evalOut.ebay) IN
        /\ Len(evalOut.calls) >= 1
        /\ evalOut.calls[1] = "ebay_search_stats"
        /\ Count(evalOut.calls, "ebay_search_stats") = 1
        /\ st.kind = "return" =>
               IF skip
               THEN /\ evalOut.kind = "return"
                    /\ IsNone(evalOut.cand)
                    /\ Count(evalOut.calls, "aliexpress_lowest_price") = 0
               ELSE Count(evalOut.calls, "aliexpress_lowest_price") = 1

AvgAbove(st) ==
    ~IsNone(st.avg_price)
        /\ The(st.avg_price).num > MAX_SELL_PRICE * The(st.avg_price).den

\* C8 as stated: the keyword is rejected without a cost call if averagePrice is
\* absent, or above MAX_SELL_PRICE, or listingCount is above MAX_LISTINGS;
\* otherwise the cost source is called exactly once.
C8_AsStated ==
    LET st == EbaySearchStats(evalOut.ebay) IN
    CallDiscipline(IsNone(st.avg_price) \/ AvgAbove(st) \/ st.count > MAX_LISTINGS)

\* C8, amended: the marketplace is called exactly once and first; the keyword is
\* rejected without a cost call if averagePrice is absent or zero, or above
\* MAX_SELL_PRICE, or listingCount is above MAX_LISTINGS; otherwise the cost
\* source is called exactly once.
C8_Amended ==
    LET st == EbaySearchStats(evalOut.ebay) IN
    CallDiscipline(\/ IsNone(st.avg_price)
                   \/ The(st.avg_price).num = 0
                   \/ AvgAbove(st)
                   \/ st.count > MAX_LISTINGS)

\* An average of zero over priced items: rejected, the cost source not called.
C8_Witness ==
    /\ evalOut.kind = "return"
    /\ EbaySearchStats(evalOut.ebay).kind = "return"
    /\ EbaySearchStats(evalOut.ebay).count > 0
    /\ The(EbaySearchStats(evalOut.ebay).avg_price).num = 0
    /\ evalOut.calls = <<"ebay_search_stats">>

\* C9: when the primary feed fails with a recognized exception the secondary feed
\* is called exactly once, with the region's country-name code, and its keywords
\* are returned; when the primary feed succeeds the secondary feed is not called.
C9_FallbackOncePerRegion ==
    trendOut.kind # "idle" =>
        LET sec == {i \in 1..Len(trendOut.calls) :
                        trendOut.calls[i].feed = "trending_searches"}
        IN /\ (primary.kind = "raise" /\ primary.exc \in
                   {"AttributeError", "ResponseError", "ConnectionError", "Timeout"}) =>
                  /\ Cardinality(sec) = 1
                  /\ \A i \in sec : trendOut.calls[i].arg = Some(GOOGLE_PN[region])
                  /\ trendOut.kind = "return"
                  /\ The(trendOut.secondary).kind = "ok" =>
                         trendOut.raw = [i \in 1..Len(The(trendOut.secondary).items) |->
                                            Lower(The(trendOut.secondary).items[i])]
           /\ trendOut.kind = "return" /\ primary.kind = "ok" => sec = {}

\* No price text of the response fails to parse (fields may be absent or empty).
RECURSIVE PricesParse(_)
PricesParse(items) ==
    IF items = <<>> THEN TRUE
    ELSE /\ ItemPrice(Head(items).it).exc # "ValueError"
         /\ PricesParse(Tail(items))

\* C10: on every received response, whatever nested fields are absent or empty,
\* ebay_search_stats returns without raising, and averagePrice is absent exactly
\* when listingCount is 0.
C10_StatsNeverRaise ==
    (/\ ebayOut.kind # "idle"
     /\ ebayOut.resp.kind = "body"
     /\ ItemsOfBody(ebayOut.resp.body).ok => PricesParse(ItemsOfBody(ebayOut.resp.body).items))
        => /\ ebayOut.kind = "return"
           /\ IsNone(ebayOut.avg_price) <=> ebayOut.count = 0

====
